---- MODULE Spec2Model ----
(***************************************************************************)
(* State-machine model of ConnectivityManagerImpl (iOS): the SSID          *)
(* normalizer, the SSID resolver (getSSIDAsync / fetchCurrentSsid), the    *)
(* configuration applier, waitUntil, connectToWifiNetwork and              *)
(* disconnectWifiNetwork.                                                  *)
(*                                                                         *)
(* Strings are sequences of one-character strings.  The JavaScript values  *)
(* null and undefined are the one-element sequences NullV and UndefV,      *)
(* which no character sequence equals.                                     *)
(*                                                                         *)
(* Time is kept relative: every running timer is a countdown in ms and     *)
(* every "Date.now() - startedAt" is an elapsed counter in ms; Tick moves  *)
(* all of them by TickMs.  An elapsed counter saturates one tick above the *)
(* timeout it is compared with, which leaves every comparison the code     *)
(* makes unchanged.  Steps that the event loop runs without waiting        *)
(* (promise continuations, expired timers) are urgent: Tick is disabled    *)
(* while one of them is enabled.                                           *)
(***************************************************************************)
EXTENDS Integers, Sequences, FiniteSets, TLC

\* ------------------------------------------------------------ constants
POLL_INTERVAL_MS == 200
SSID_FETCH_TIMEOUT_MS == 1500
HOTSPOT_RETRY_DELAY_MS == 400
HOTSPOT_ERROR_INTERNAL == 8
HOTSPOT_ERROR_PENDING == 9
HOTSPOT_ERROR_JOIN_ONCE_NOT_SUPPORTED == 12
HOTSPOT_ERROR_ALREADY_ASSOCIATED == 13
\* the preferred slice of the first two polling stages
PREFERRED_SLICE_MS == 15000
\* ------------------------------------------------------------ bounds
\* the largest timeout a caller passes, in ticks
MaxTimeoutTicks == 5
\* a native error code that is none of the codes the program classifies
OtherErrorCode == 1
\* what the long timeouts exceed one and two preferred slices by, in ticks
LongExtraTicks == 18

\* the granularity of the clock
TickMs == POLL_INTERVAL_MS \div 2

Min(a, b) == IF a < b THEN a ELSE b
Max(a, b) == IF a > b THEN a ELSE b

\* ------------------------------------------------------------ values
NullV == <<"null">>
UndefV == <<"undefined">>
Quote == "\""
Space == " "
UnknownSsid ==
  <<"<", "u", "n", "k", "n", "o", "w", "n", " ", "s", "s", "i", "d", ">">>
Cafe == <<"C">>
Home == <<"H">>
Quoted(s) == <<Quote>> \o s \o <<Quote>>

\* JavaScript truthiness of a string-or-null value
Truthy(v) == v # NullV /\ v # UndefV /\ v # <<>>

\* the raw values the native SSID readouts hand back
NativeRaw ==
  { NullV, <<>>, <<Space>>, Cafe, Home, Quoted(Cafe), UnknownSsid }

\* the ssid arguments a caller passes to connectToWifiNetwork
ConnectInputs ==
  { NullV, UndefV, <<>>, UnknownSsid, Quoted(<<>>), Cafe, <<Space>> \o Cafe,
    Quoted(Cafe), Home }

Passwords == { <<>>, <<"p">> }

\* the timeouts a caller passes (one negative, to exercise the floor at 0)
TimeoutChoices == { k * TickMs : k \in -1..MaxTimeoutTicks }

\* the arguments of the calls that overlap with other calls
OverlapInputs == { Cafe, Home }
OverlapPasswords == { <<>> }
OverlapTimeouts == { 0, MaxTimeoutTicks * TickMs }

\* timeouts long enough for the second and the third polling stage
LongTimeouts ==
  { PREFERRED_SLICE_MS + LongExtraTicks * TickMs,
    2 * PREFERRED_SLICE_MS + LongExtraTicks * TickMs }

\* How the application calls: alone (a call is made when no other is in
\* progress), overlapping, or alone with a long timeout.  record says whether
\* the record of what the invocation has done is kept.
Alone ==
  [ exclusive |-> TRUE, record |-> TRUE, ssids |-> ConnectInputs,
    passwords |-> Passwords, timeouts |-> TimeoutChoices ]
Overlapping ==
  [ exclusive |-> FALSE, record |-> FALSE, ssids |-> OverlapInputs,
    passwords |-> OverlapPasswords, timeouts |-> OverlapTimeouts ]
AloneLong ==
  [ exclusive |-> TRUE, record |-> FALSE, ssids |-> { Cafe },
    passwords |-> OverlapPasswords, timeouts |-> LongTimeouts ]

\* what the native completion handler of applyConfiguration is called with:
\* 0 stands for "no error", anything else is the code of an NSError
ApplyErrors ==
  { 0, HOTSPOT_ERROR_INTERNAL, HOTSPOT_ERROR_PENDING,
    HOTSPOT_ERROR_JOIN_ONCE_NOT_SUPPORTED, HOTSPOT_ERROR_ALREADY_ASSOCIATED,
    OtherErrorCode }

\* ------------------------------------------------------------ normalizer
RECURSIVE TrimStart(_)
TrimStart(s) ==
  IF s # <<>> /\ Head(s) = Space THEN TrimStart(Tail(s)) ELSE s

RECURSIVE TrimEnd(_)
TrimEnd(s) ==
  IF s # <<>> /\ s[Len(s)] = Space THEN TrimEnd(SubSeq(s, 1, Len(s) - 1)) ELSE s

Trim(s) == TrimEnd(TrimStart(s))

normalizeSsid(rawSsid) ==
  IF rawSsid = NullV \/ rawSsid = UndefV THEN NullV
  ELSE LET normalized == Trim(rawSsid) IN
       IF normalized = <<>> \/ normalized = UnknownSsid THEN NullV
       ELSE IF /\ Len(normalized) >= 2
               /\ Head(normalized) = Quote
               /\ normalized[Len(normalized)] = Quote
            THEN SubSeq(normalized, 2, Len(normalized) - 1)
            ELSE normalized

\* ------------------------------------------------------------ native readouts
\* An outcome of the CaptiveNetwork readout is a raw SSID or Thrown.
Thrown == <<"throw">>
CaptiveOutcomes == NativeRaw \cup { Thrown }

\* getNetworkInfo: the info dictionary (here: its SSID) or null
getNetworkInfo(outcome) ==
  IF outcome = Thrown \/ ~Truthy(outcome) THEN NullV ELSE outcome

getSsidFromCaptiveNetwork(outcome) == normalizeSsid(getNetworkInfo(outcome))

getSsidFromCaptiveNetworkSafe(outcome) == getSsidFromCaptiveNetwork(outcome)

\* network is the SSID property of the NEHotspotNetwork, NullV for no network
getSsidFromHotspotNetwork(network) == normalizeSsid(network)

\* how NEHotspotNetwork.fetchCurrentWithCompletionHandler behaves when called
FetchModes == { "issued", "unavailable", "throws" }

\* ------------------------------------------------------------ error classes
getHotspotErrorCode(err) == IF err # 0 THEN err ELSE -1

isRecoverableHotspotConfigurationError(err) ==
  LET code == getHotspotErrorCode(err) IN
  \/ code = HOTSPOT_ERROR_ALREADY_ASSOCIATED
  \/ code = HOTSPOT_ERROR_PENDING
  \/ code = HOTSPOT_ERROR_INTERNAL

\* Faulty variant: the internal error is not told apart
canRetryAfterConfigurationReset_Never(err) == FALSE

canRetryAfterConfigurationReset(err) ==
  getHotspotErrorCode(err) = HOTSPOT_ERROR_INTERNAL

\* Faulty variant: "join-once not supported" is not told apart
canRetryWithoutJoinOnce_Never(err) == FALSE

canRetryWithoutJoinOnce(err) ==
  getHotspotErrorCode(err) = HOTSPOT_ERROR_JOIN_ONCE_NOT_SUPPORTED

createHotspotConfiguration(ssid, password, joinOnce) ==
  [SSID |-> ssid, secured |-> Truthy(password), joinOnce |-> joinOnce]

\* ------------------------------------------------------------ state
VARIABLES
  previousSsid,   \* this.previousSsid
  cachedSsid,     \* this.cachedSsid
  rd,             \* per caller, the SSID fetch it is awaiting ("refresh":
                  \* this.ssidRefreshInFlight, idle when it is null)
  wu,             \* per caller, the waitUntil call it is awaiting
  conn,           \* the connectToWifiNetwork invocation
  disc,           \* the disconnectWifiNetwork invocation
  asyn,           \* the getSSIDAsync invocation made by the application
  pendingApply,   \* the configuration whose completion handler is outstanding
  hconn,          \* what the connect invocation has done so far
  hdisc           \* what the disconnect invocation has done so far

vars ==
  << previousSsid, cachedSsid, rd, wu, conn, disc, asyn, pendingApply,
     hconn, hdisc >>

Readers == { "conn", "disc", "asyn", "refresh" }
\* the waitUntil calls: those of connect and disconnect, and "any", a call
\* with a predicate of any behaviour (true, false or rejecting)
Waiters == { "conn", "disc", "any" }

NoConfig == [SSID |-> NullV, secured |-> FALSE, joinOnce |-> FALSE]

\* late: the fetch ended by its timeout and the native completion handler
\* may still be called (followed until the invocation that made the fetch
\* has returned to its caller)
RdIdle == [st |-> "idle", timer |-> -1, val |-> NullV, late |-> FALSE]
\* pc, result, last (the outcome of the last predicate evaluation), rejects
\* (evaluations that rejected, counted up to 2) and logs (calls of
\* logConnectivityError, counted up to 2) are followed for "any"
WuIdle ==
  [ safeTimeoutMs |-> 0, safeIntervalMs |-> 0, elapsed |-> 0, timer |-> -1,
    loopErrorLogged |-> FALSE, pc |-> "idle", result |-> "none",
    last |-> "none", rejects |-> 0, logs |-> 0 ]

ConnIdle ==
  [ pc |-> "idle", ret |-> "none", stage |-> 0, expectedSsid |-> NullV,
    password |-> <<>>, safeTimeoutMs |-> 0, elapsed |-> 0, timer |-> -1,
    connected |-> FALSE, result |-> "none", removes |-> 0, applies |-> 0,
    lastNative |-> "none", err |-> 0 ]

DiscIdle ==
  [ pc |-> "idle", ssidToDisconnect |-> NullV, disconnected |-> FALSE,
    result |-> "none" ]

AsynIdle == [pc |-> "idle", result |-> NullV, elapsed |-> 0, cached0 |-> NullV]

\* The records of what an invocation has done are kept for the invocations
\* that run alone (on); overlapping invocations are not recorded.
HconnInit ==
  [ on |-> FALSE, prev0 |-> UndefV, cached0 |-> NullV, readIssued |-> FALSE,
    issuedInTime |-> FALSE, inTime |-> FALSE, lastRead |-> NullV,
    sawRead |-> FALSE, initialMatch |-> FALSE, polled |-> FALSE,
    fallback |-> "none" ]

HdiscInit ==
  [ on |-> FALSE, prev0 |-> UndefV, cached0 |-> NullV, readIssued |-> FALSE, removes |-> 0 ]

\* the record h brought up to date as new, when it is kept
Recorded(h, new) == IF h.on THEN new ELSE h

Init ==
  /\ previousSsid = UndefV
  /\ cachedSsid = NullV
  /\ rd = [o \in Readers |-> RdIdle]
  /\ wu = [o \in Waiters |-> WuIdle]
  /\ conn = ConnIdle
  /\ disc = DiscIdle
  /\ asyn = AsynIdle
  /\ pendingApply = NoConfig
  /\ hconn = HconnInit
  /\ hdisc = HdiscInit

\* no invocation is in progress
AllIdle == conn.pc = "idle" /\ disc.pc = "idle" /\ asyn.pc = "idle"

\* ------------------------------------------------------------ SSID resolver
\* fetchCurrentSsid up to its first suspension: the call is issued and the
\* timeout armed, or (API unavailable, call throws) the legacy read decides
fetchCurrentSsid(mode, fb) ==
  IF mode = "issued"
  THEN [st |-> "fetching", timer |-> SSID_FETCH_TIMEOUT_MS, val |-> NullV,
        cache |-> FALSE]
  ELSE [st |-> "done", timer |-> -1,
        val |-> getSsidFromCaptiveNetworkSafe(fb), cache |-> TRUE]

\* Faulty variant: the fast path returns without storing the SSID
getSSIDAsync_NoStore(fast, mode, fb) ==
  LET fastPathSsid == getSsidFromCaptiveNetworkSafe(fast) IN
  IF Truthy(fastPathSsid)
  THEN [st |-> "done", timer |-> -1, val |-> fastPathSsid, cache |-> FALSE]
  ELSE fetchCurrentSsid(mode, fb)

\* getSSIDAsync up to its first suspension; cache says whether cachedSsid has
\* been written with val
getSSIDAsync(fast, mode, fb) ==
  LET fastPathSsid == getSsidFromCaptiveNetworkSafe(fast) IN
  IF Truthy(fastPathSsid)
  THEN [st |-> "done", timer |-> -1, val |-> fastPathSsid, cache |-> TRUE]
  ELSE fetchCurrentSsid(mode, fb)

RdOf(r) == [st |-> r.st, timer |-> r.timer, val |-> r.val, late |-> FALSE]

\* the promise has handed its value to the continuation awaiting it
Consumed(r) == [RdIdle EXCEPT !.late = r.late]

\* every way a call of getSSIDAsync can go, over the outcomes of the native
\* readouts it makes
GetSSIDAsyncOutcomes ==
  { getSSIDAsync(fast, mode, fb) :
      fast \in CaptiveOutcomes, mode \in FetchModes, fb \in CaptiveOutcomes }

\* the completion handler of fetchCurrentWithCompletionHandler, called with
\* network while the legacy readout would give fb: the value finish gets
fetchCurrentHandler(network, fb) ==
  LET ssid == getSsidFromHotspotNetwork(network) IN
  IF Truthy(ssid) THEN ssid ELSE getSsidFromCaptiveNetworkSafe(fb)

FetchCompletionValues ==
  { fetchCurrentHandler(network, fb) :
      network \in NativeRaw, fb \in CaptiveOutcomes }

\* the timeout callback of fetchCurrentSsid: the value finish gets
fetchCurrentTimeout(fb) == getSsidFromCaptiveNetworkSafe(fb)

FetchTimeoutValues == { fetchCurrentTimeout(fb) : fb \in CaptiveOutcomes }

\* Faulty variant: finish does not look at settled
finish_Unsettled(r, ssid) ==
  [r EXCEPT !.st = "done", !.timer = -1, !.val = ssid]

\* finish(ssid) of fetchCurrentSsid: nothing once settled, else the timeout is
\* cleared and the promise resolved with ssid
finish(r, ssid) ==
  IF r.st # "fetching" THEN r
  ELSE [r EXCEPT !.st = "done", !.timer = -1, !.val = ssid]

\* fetchCurrentSsid has resolved as r and the continuation attached to it
\* runs: that of getSSIDAsync hands the value on to its caller, that of
\* refreshCachedSsidInBackground sets ssidRefreshInFlight back to null
FetchSettled(o, r) == IF o = "refresh" THEN RdIdle ELSE r

\* the completion handler of fetchCurrentWithCompletionHandler fires, then the
\* continuation attached to fetchCurrentSsid stores the result
FetchCompleted(o) ==
  /\ rd[o].st = "fetching"
  /\ \E v \in FetchCompletionValues :
       /\ rd' = [rd EXCEPT ![o] = FetchSettled(o, finish(@, v))]
       /\ cachedSsid' = v
  /\ UNCHANGED << previousSsid, wu, conn, disc, asyn, pendingApply, hconn, hdisc >>

\* the SSID_FETCH_TIMEOUT_MS timer of fetchCurrentSsid fires first
FetchTimedOut(o) ==
  /\ rd[o].st = "fetching"
  /\ rd[o].timer = 0
  /\ \E v \in FetchTimeoutValues :
       /\ rd' = [rd EXCEPT ![o] =
                  FetchSettled(o, [finish(@, v) EXCEPT !.late = TRUE])]
       /\ cachedSsid' = v
  /\ UNCHANGED << previousSsid, wu, conn, disc, asyn, pendingApply, hconn, hdisc >>

\* the native completion handler is called after the timeout has ended the
\* fetch: finish is called once more
FetchCompletedLate(o) ==
  /\ rd[o].late
  /\ \E v \in FetchCompletionValues :
       rd' = [rd EXCEPT ![o] = [finish(@, v) EXCEPT !.late = FALSE]]
  /\ UNCHANGED << previousSsid, cachedSsid, wu, conn, disc, asyn, pendingApply,
                  hconn, hdisc >>

\* how a call of fetchCurrentSsid can start
FetchStartOutcomes ==
  { fetchCurrentSsid(mode, fb) : mode \in FetchModes, fb \in CaptiveOutcomes }

\* refreshCachedSsidInBackground with ssidRefreshInFlight as r says: nothing
\* when a refresh is in flight, else a fetch f is started; store says whether
\* its continuation runs (and stores f.val) as soon as the caller returns
refreshCachedSsidInBackground(r, f) ==
  IF r.st # "idle" THEN [rd |-> r, store |-> FALSE, val |-> NullV]
  ELSE IF f.st = "fetching" THEN [rd |-> RdOf(f), store |-> FALSE, val |-> NullV]
       ELSE [rd |-> RdIdle, store |-> TRUE, val |-> f.val]

\* what the legacy readout of getSSID can give
GetSSIDFallbacks == { getSsidFromCaptiveNetwork(o) : o \in CaptiveOutcomes }

\* the application calls getSSID: the background refresh, the cached value or
\* the legacy readout, then the continuation of a refresh that ended at once
getSSID ==
  /\ \E f \in FetchStartOutcomes, fallbackSsid \in GetSSIDFallbacks :
       LET b == refreshCachedSsidInBackground(rd["refresh"], f)
           returned == IF Truthy(cachedSsid) THEN cachedSsid ELSE fallbackSsid
       IN /\ rd' = [rd EXCEPT !["refresh"] = b.rd]
          /\ cachedSsid' = IF b.store THEN b.val ELSE returned
  /\ UNCHANGED << previousSsid, wu, conn, disc, asyn, pendingApply, hconn, hdisc >>

\* the application calls getSSIDAsync
getSSIDAsyncCall(env) ==
  /\ asyn.pc = "idle"
  /\ env.exclusive => AllIdle
  /\ \E r \in GetSSIDAsyncOutcomes :
          /\ rd' = [rd EXCEPT !["asyn"] = RdOf(r)]
          /\ cachedSsid' = IF r.cache THEN r.val ELSE cachedSsid
  /\ asyn' = [AsynIdle EXCEPT !.pc = "reading", !.cached0 = cachedSsid]
  /\ UNCHANGED << previousSsid, wu, conn, disc, pendingApply, hconn, hdisc >>

\* the promise getSSIDAsync returned resolves
getSSIDAsyncResolved ==
  /\ asyn.pc = "reading"
  /\ rd["asyn"].st = "done"
  /\ asyn' = [asyn EXCEPT !.pc = "settled", !.result = rd["asyn"].val]
  /\ rd' = [rd EXCEPT !["asyn"] = Consumed(@)]
  /\ UNCHANGED << previousSsid, cachedSsid, wu, conn, disc, pendingApply, hconn, hdisc >>

\* the application takes the result
getSSIDAsyncReturn ==
  /\ asyn.pc = "settled"
  /\ asyn' = AsynIdle
  /\ rd' = [rd EXCEPT !["asyn"] = RdIdle]
  /\ UNCHANGED << previousSsid, cachedSsid, wu, conn, disc, pendingApply, hconn, hdisc >>

\* ------------------------------------------------------------ waitUntil
safeInterval(intervalMs) == Max(50, IF intervalMs = 0 THEN 200 ELSE intervalMs)

\* waitUntil(checkFn, timeoutMs, intervalMs) up to the first run of loop
waitUntilEvery(timeoutMs, intervalMs) ==
  [WuIdle EXCEPT !.safeTimeoutMs = Max(0, timeoutMs),
                 !.safeIntervalMs = safeInterval(intervalMs)]

\* waitUntil with the default intervalMs
waitUntil(timeoutMs) == waitUntilEvery(timeoutMs, POLL_INTERVAL_MS)

\* Faulty variant: a result that is not true ends the wait
waitUntilLoop_GivesUp(w, result) == IF result THEN "true" ELSE "false"

\* what loop does with the result of checkFn: "true", "false" or "sleep"
waitUntilLoop(w, result) ==
  IF result THEN "true"
  ELSE IF w.elapsed >= w.safeTimeoutMs THEN "false"
  ELSE "sleep"

\* Faulty variant: a rejection of checkFn ends the wait
waitUntilCatch_GivesUp(w) == "false"

\* what the catch of loop does when checkFn rejects: "false" or "sleep"
waitUntilCatch(w) ==
  IF w.elapsed >= w.safeTimeoutMs THEN "false" ELSE "sleep"

\* "if (!loopErrorLogged) { loopErrorLogged = true; logConnectivityError }"
LogRejection(w) ==
  [w EXCEPT !.loopErrorLogged = TRUE,
            !.logs = IF w.loopErrorLogged THEN @ ELSE Min(@ + 1, 2),
            !.rejects = Min(@ + 1, 2)]

\* "setTimeout(loop, safeIntervalMs)"
WuSleep(w) == [w EXCEPT !.timer = w.safeIntervalMs]

\* Faulty variant: loop goes on to setTimeout(loop) after finish
WuFinished_Rearmed(w) == WuSleep(w)

\* "finish(result); return;": the waitUntil is over, no timer is armed
WuFinished(w) == WuIdle

\* ------------------------------------------------------------ waitUntil
\* with a predicate of any behaviour
IntervalChoices == { 0, TickMs, POLL_INTERVAL_MS }
CheckOutcomes == { "true", "false", "reject" }

\* waitUntil is called; loop is about to run for the first time
WaitUntilCall ==
  /\ wu["any"].pc = "idle"
  /\ \E timeoutMs \in TimeoutChoices, intervalMs \in IntervalChoices :
       wu' = [wu EXCEPT !["any"] =
                [waitUntilEvery(timeoutMs, intervalMs) EXCEPT !.pc = "loop"]]
  /\ UNCHANGED << previousSsid, cachedSsid, rd, conn, disc, asyn, pendingApply,
                  hconn, hdisc >>

\* loop runs (at once after the call, later when the interval ends) and
\* calls checkFn
WaitUntilLoop ==
  /\ \/ wu["any"].pc = "loop"
     \/ wu["any"].pc = "sleep" /\ wu["any"].timer = 0
  /\ wu' = [wu EXCEPT !["any"].pc = "check", !["any"].timer = -1]
  /\ UNCHANGED << previousSsid, cachedSsid, rd, conn, disc, asyn, pendingApply,
                  hconn, hdisc >>

\* the promise of checkFn settles as outcome: the then or the catch of loop
WaitUntilChecked ==
  /\ wu["any"].pc = "check"
  /\ \E outcome \in CheckOutcomes :
       LET w == IF outcome = "reject" THEN LogRejection(wu["any"]) ELSE wu["any"]
           step == IF outcome = "reject" THEN waitUntilCatch(w)
                   ELSE waitUntilLoop(w, outcome = "true")
           n == [w EXCEPT !.last = outcome]
       IN wu' = [wu EXCEPT !["any"] =
                   IF step = "sleep" THEN [WuSleep(n) EXCEPT !.pc = "sleep"]
                   ELSE [n EXCEPT !.pc = "settled", !.result = step]]
  /\ UNCHANGED << previousSsid, cachedSsid, rd, conn, disc, asyn, pendingApply,
                  hconn, hdisc >>

\* the caller takes the result of waitUntil
WaitUntilReturn ==
  /\ wu["any"].pc = "settled"
  /\ wu' = [wu EXCEPT !["any"] = WuIdle]
  /\ UNCHANGED << previousSsid, cachedSsid, rd, conn, disc, asyn, pendingApply,
                  hconn, hdisc >>

\* ------------------------------------------------------------ connect
Settled(c, res) ==
  [c EXCEPT !.pc = "settled", !.result = res, !.ret = "none",
            !.timer = -1, !.connected = FALSE]

getRemainingTimeout(c) == Max(0, c.safeTimeoutMs - c.elapsed)

getTimeoutSlice(c, preferredMs) ==
  Max(0, Min(Max(0, preferredMs), getRemainingTimeout(c)))

\* delay(ms): the countdown of the timer it arms
delay(ms) == Max(0, ms)

\* removeConfigurationForSSID (a throw is caught and logged), then the settle
\* delay is armed; ret names the apply that follows the delay
applyHotspotConfigurationAfterReset(c, ret, threw) ==
  [c EXCEPT !.pc = "delay", !.ret = ret, !.removes = @ + 1,
            !.lastNative = IF threw THEN "threw" ELSE "returned",
            !.timer = delay(HOTSPOT_RETRY_DELAY_MS)]

\* Faulty variant: a throwing native apply call escapes as a rejection
applyHotspotConfiguration_Uncaught(c, ret, threw) ==
  IF threw
  THEN Settled([c EXCEPT !.applies = @ + 1, !.lastNative = "threw"], "rejected")
  ELSE [c EXCEPT !.pc = "apply", !.ret = ret, !.timer = -1, !.applies = @ + 1,
                 !.lastNative = "returned"]

\* applyHotspotConfiguration: the native call is issued and its completion
\* handler awaited; a native call that throws rejects the promise, which the
\* catch of connectToWifiNetwork turns into resolve(false)
applyHotspotConfiguration(c, ret, threw) ==
  IF threw
  THEN Settled([c EXCEPT !.applies = @ + 1, !.lastNative = "threw"], "false")
  ELSE [c EXCEPT !.pc = "apply", !.ret = ret, !.timer = -1, !.applies = @ + 1,
                 !.lastNative = "returned"]

\* the first run of loop of the waitUntil of a polling stage is scheduled
StartPolling(c, stage) == [c EXCEPT !.pc = "poll", !.ret = "none", !.stage = stage]

PollTimeout(c, stage) ==
  IF stage = 3 THEN getRemainingTimeout(c)
  ELSE getTimeoutSlice(c, PREFERRED_SLICE_MS)

\* Faulty variant: polling starts whatever the error
AfterApplyStage_AlwaysPoll(c, stage, err) == StartPolling(c, stage)

\* the steps "go on to the next stage" that follow an apply whose final error
\* is err: resolve(false) on a non-recoverable error, else poll
AfterApplyStage(c, stage, err) ==
  IF err # 0 /\ ~isRecoverableHotspotConfigurationError(err)
  THEN Settled(c, "false")
  ELSE StartPolling(c, stage)

\* the continuation of applyHotspotConfigurationWithFallback in
\* connectToWifiNetwork: one more reset on the internal error, else stage 1
AfterFallback(c, err, threw) ==
  IF err # 0 /\ canRetryAfterConfigurationReset(err)
  THEN applyHotspotConfigurationAfterReset(c, "initReset", threw)
  ELSE AfterApplyStage(c, 1, err)

\* applyHotspotConfigurationWithFallback after the completion of the apply
\* named c.ret ("fb1" the join-once apply, "fb2" the apply without join-once,
\* "fbReset" the apply after its reset) with err
applyHotspotConfigurationWithFallback(c, err, threw) ==
  IF c.ret = "fb1"
  THEN IF err = 0 \/ isRecoverableHotspotConfigurationError(err)
       THEN AfterFallback(c, err, threw)
       ELSE IF canRetryWithoutJoinOnce(err)
            THEN applyHotspotConfiguration(c, "fb2", threw)
            ELSE IF canRetryAfterConfigurationReset(err)
                 THEN applyHotspotConfigurationAfterReset(c, "fbReset", threw)
                 ELSE AfterFallback(c, err, threw)
  ELSE IF c.ret = "fb2"
       THEN IF err # 0 /\ canRetryAfterConfigurationReset(err)
            THEN applyHotspotConfigurationAfterReset(c, "fbReset", threw)
            ELSE AfterFallback(c, err, threw)
       ELSE AfterFallback(c, err, threw)

\* connectToWifiNetwork after the completion of the apply named c.ret with err
AfterApply(c0, err, threw) ==
  LET c == [c0 EXCEPT !.err = err] IN
  CASE c.ret \in { "fb1", "fb2", "fbReset" } ->
         applyHotspotConfigurationWithFallback(c, err, threw)
    [] c.ret = "initReset" -> AfterApplyStage(c, 1, err)
    [] c.ret = "persist" ->
         IF err # 0 /\ canRetryAfterConfigurationReset(err)
         THEN applyHotspotConfigurationAfterReset(c, "persistReset", threw)
         ELSE AfterApplyStage(c, 2, err)
    [] c.ret = "persistReset" -> AfterApplyStage(c, 2, err)
    [] c.ret = "resetRetry" -> AfterApplyStage(c, 3, err)

\* Faulty variant: every apply asks for a join-once configuration
ConfigurationOf_JoinOnce(c, ret) ==
  createHotspotConfiguration(c.expectedSsid, c.password, TRUE)

\* the configuration the apply named ret submits
ConfigurationOf(c, ret) ==
  createHotspotConfiguration(c.expectedSsid, c.password, ret = "fb1")

\* the configuration whose completion handler connect invocation n awaits
PendingOf(n) == IF n.pc = "apply" THEN ConfigurationOf(n, n.ret) ELSE NoConfig

\* the waitUntil state a step from c to n leaves: created when polling starts
WuAfter(w, c, n) ==
  IF n.pc = "poll" /\ c.pc # "poll" THEN waitUntil(PollTimeout(c, n.stage))
  ELSE IF n.pc = "settled" THEN WuIdle ELSE w

\* Faulty variant: only the empty string is refused
InvalidTarget_EmptyOnly(expectedSsid) == expectedSsid = <<>>

\* "if (!expectedSsid)": the target is refused
InvalidTarget(expectedSsid) == ~Truthy(expectedSsid)

\* connectToWifiNetwork(ssid, password, milliseconds) up to its first
\* suspension
connectToWifiNetwork(env) ==
  /\ conn.pc = "idle"
  /\ env.exclusive => AllIdle
  /\ \E ssid \in env.ssids, password \in env.passwords,
        milliseconds \in env.timeouts :
       LET expectedSsid == normalizeSsid(ssid)
           h0 == IF env.record
                 THEN [HconnInit EXCEPT !.on = TRUE, !.prev0 = previousSsid,
                                        !.cached0 = cachedSsid]
                 ELSE HconnInit
       IN IF InvalidTarget(expectedSsid)
          THEN /\ conn' = Settled(
                     [ConnIdle EXCEPT !.expectedSsid = expectedSsid], "false")
               /\ hconn' = h0
               /\ UNCHANGED << rd, cachedSsid >>
          ELSE \E r \in GetSSIDAsyncOutcomes :
                    /\ conn' = [ConnIdle EXCEPT
                                  !.pc = "initRead",
                                  !.expectedSsid = expectedSsid,
                                  !.password = password,
                                  !.safeTimeoutMs = Max(0, milliseconds)]
                    /\ rd' = [rd EXCEPT !["conn"] = RdOf(r)]
                    /\ cachedSsid' = IF r.cache THEN r.val ELSE cachedSsid
                    /\ hconn' = Recorded(h0, [h0 EXCEPT !.readIssued = TRUE,
                                                      !.issuedInTime = TRUE])
  /\ UNCHANGED << previousSsid, wu, disc, asyn, pendingApply, hdisc >>

\* a read of the connect invocation has produced val: the bookkeeping (a
\* read counts as made within the budget when it was started within it)
NoteRead(h, c, val) ==
  Recorded(h,
    [h EXCEPT !.lastRead = val, !.sawRead = TRUE,
              !.initialMatch = (c.pc = "initRead"
                                /\ normalizeSsid(val) = c.expectedSsid),
              !.inTime = @ \/ (normalizeSsid(val) = c.expectedSsid
                               /\ h.issuedInTime)])

\* what has become of the apply without join-once that follows the code
\* "join-once not supported": "issued" while it is outstanding, then "ok"
\* (no error) or "failed"
NoteFallback(f, c, n) ==
  IF c.ret = "fb1" /\ n.pc = "apply" /\ n.ret = "fb2" THEN "issued"
  ELSE IF c.ret = "fb2" THEN (IF n.err = 0 THEN "ok" ELSE "failed")
  ELSE f

\* Faulty variant: the shortcut is never taken
AlreadyJoined_Never(initialSsid, expectedSsid) == FALSE

\* "if (initialSsid === expectedSsid)": the idempotent shortcut applies
AlreadyJoined(initialSsid, expectedSsid) == initialSsid = expectedSsid

\* the continuation of the initial getSSIDAsync: the idempotent shortcut, or
\* the start of applyHotspotConfigurationWithFallback
ConnInitialSsid ==
  /\ conn.pc = "initRead"
  /\ rd["conn"].st = "done"
  /\ LET initialSsid == normalizeSsid(rd["conn"].val)
         h == NoteRead(hconn, conn, rd["conn"].val)
     IN IF AlreadyJoined(initialSsid, conn.expectedSsid)
        THEN /\ previousSsid' = conn.expectedSsid
             /\ cachedSsid' = conn.expectedSsid
             /\ conn' = Settled(conn, "true")
             /\ hconn' = h
        ELSE /\ \E threw \in BOOLEAN :
                  conn' = applyHotspotConfigurationAfterReset(conn, "fb1", threw)
             /\ hconn' = h
             /\ UNCHANGED << previousSsid, cachedSsid >>
  /\ rd' = [rd EXCEPT !["conn"] = Consumed(@)]
  /\ UNCHANGED << wu, disc, asyn, pendingApply, hdisc >>

\* a settle delay ends: the configuration is created and applied
ConnDelayFired ==
  /\ conn.pc = "delay"
  /\ conn.timer = 0
  /\ \E threw \in BOOLEAN :
       conn' = applyHotspotConfiguration(conn, conn.ret, threw)
  /\ pendingApply' = PendingOf(conn')
  /\ UNCHANGED << previousSsid, cachedSsid, rd, wu, disc, asyn, hconn, hdisc >>

\* the native configuration manager calls the completion handler
ConnApplyCompleted ==
  /\ conn.pc = "apply"
  /\ \E err \in ApplyErrors, threw \in BOOLEAN :
       conn' = AfterApply(conn, err, threw)
  /\ pendingApply' = PendingOf(conn')
  /\ wu' = [wu EXCEPT !["conn"] = WuAfter(@, conn, conn')]
  /\ hconn' = Recorded(hconn, [hconn EXCEPT !.fallback = NoteFallback(@, conn, conn')])
  /\ UNCHANGED << previousSsid, cachedSsid, rd, disc, asyn, hdisc >>

\* loop of the waitUntil of a polling stage runs (at once when the stage
\* starts, later when the poll interval ends): checkFn calls getSSIDAsync
ConnPollLoop ==
  /\ \/ conn.pc = "poll"
     \/ conn.pc = "pollSleep" /\ wu["conn"].timer = 0
  /\ \E r \in GetSSIDAsyncOutcomes :
          /\ rd' = [rd EXCEPT !["conn"] = RdOf(r)]
          /\ cachedSsid' = IF r.cache THEN r.val ELSE cachedSsid
  /\ conn' = [conn EXCEPT !.pc = "pollRead", !.err = 0]
  /\ wu' = [wu EXCEPT !["conn"].timer = -1]
  /\ hconn' = Recorded(hconn,
                [hconn EXCEPT !.readIssued = TRUE, !.polled = TRUE,
                              !.issuedInTime = (conn.elapsed <= conn.safeTimeoutMs)])
  /\ UNCHANGED << previousSsid, disc, asyn, pendingApply, hdisc >>

\* checkFn resolves and loop decides: finish(true), finish(false) or sleep
ConnPollResult ==
  /\ conn.pc = "pollRead"
  /\ rd["conn"].st = "done"
  /\ LET currentSsid == normalizeSsid(rd["conn"].val)
         step == waitUntilLoop(wu["conn"], currentSsid = conn.expectedSsid)
     IN IF step = "sleep"
        THEN /\ conn' = [conn EXCEPT !.pc = "pollSleep"]
             /\ wu' = [wu EXCEPT !["conn"] = WuSleep(@)]
        ELSE /\ conn' = [conn EXCEPT !.pc = "waited",
                                     !.connected = (step = "true")]
             /\ wu' = [wu EXCEPT !["conn"] = WuFinished(@)]
  /\ hconn' = NoteRead(hconn, conn, rd["conn"].val)
  /\ rd' = [rd EXCEPT !["conn"] = Consumed(@)]
  /\ UNCHANGED << previousSsid, cachedSsid, disc, asyn, pendingApply, hdisc >>

\* connectToWifiNetwork after "connected = await this.waitUntil(...)" of stage
\* c.stage: the next remediation, or the final bookkeeping and resolve
AfterWait(c, threw) ==
  IF ~c.connected /\ getRemainingTimeout(c) > 0 /\ c.stage = 1
  THEN applyHotspotConfiguration(c, "persist", threw)
  ELSE IF ~c.connected /\ getRemainingTimeout(c) > 0 /\ c.stage = 2
       THEN applyHotspotConfigurationAfterReset(c, "resetRetry", threw)
       ELSE Settled(c, IF c.connected THEN "true" ELSE "false")

\* Faulty variant: the target is never recorded
RecordTarget_Never(connected, expectedSsid, current) == current

\* Faulty variant: the target is recorded before connected is looked at
RecordTarget_Always(connected, expectedSsid, current) == expectedSsid

\* "if (connected) { this.previousSsid = expectedSsid; this.cachedSsid =
\* expectedSsid; }": the value either field has after it
RecordTarget(connected, expectedSsid, current) ==
  IF connected THEN expectedSsid ELSE current

ConnAfterWait ==
  /\ conn.pc = "waited"
  /\ \E threw \in BOOLEAN : conn' = AfterWait(conn, threw)
  /\ IF conn'.pc = "settled"
     THEN /\ previousSsid' =
               RecordTarget(conn.connected, conn.expectedSsid, previousSsid)
          /\ cachedSsid' =
               RecordTarget(conn.connected, conn.expectedSsid, cachedSsid)
     ELSE UNCHANGED << previousSsid, cachedSsid >>
  /\ pendingApply' = PendingOf(conn')
  /\ UNCHANGED << rd, wu, disc, asyn, hconn, hdisc >>

\* the caller takes the result of connectToWifiNetwork
ConnectReturn ==
  /\ conn.pc = "settled"
  /\ conn' = ConnIdle
  /\ hconn' = HconnInit
  /\ rd' = [rd EXCEPT !["conn"] = RdIdle]
  /\ UNCHANGED << previousSsid, cachedSsid, wu, disc, asyn, pendingApply, hdisc >>

\* ------------------------------------------------------------ disconnect
\* Faulty variant: the removal is issued whatever PreviousSsid is
NothingToDisconnect_Never(ssidToDisconnect) == FALSE

\* "if (!ssidToDisconnect)": there is no recorded network to leave
NothingToDisconnect(ssidToDisconnect) == ~Truthy(ssidToDisconnect)

\* disconnectWifiNetwork(timeoutMs) up to its first suspension
disconnectWifiNetwork(env) ==
  /\ disc.pc = "idle"
  /\ env.exclusive => AllIdle
  /\ \E timeoutMs \in env.timeouts, threw \in BOOLEAN :
       LET ssidToDisconnect == normalizeSsid(previousSsid)
           d == [DiscIdle EXCEPT !.ssidToDisconnect = ssidToDisconnect]
           h0 == IF env.record
                 THEN [HdiscInit EXCEPT !.on = TRUE, !.prev0 = previousSsid,
                                        !.cached0 = cachedSsid]
                 ELSE HdiscInit
       IN IF NothingToDisconnect(ssidToDisconnect)
          THEN /\ disc' = [d EXCEPT !.pc = "settled", !.result = "true"]
               /\ hdisc' = h0
               /\ UNCHANGED wu
          ELSE IF threw
               THEN /\ disc' = [d EXCEPT !.pc = "settled", !.result = "rejected"]
                    /\ hdisc' = Recorded(h0, [h0 EXCEPT !.removes = 1])
                    /\ UNCHANGED wu
               ELSE /\ disc' = [d EXCEPT !.pc = "poll"]
                    /\ hdisc' = Recorded(h0, [h0 EXCEPT !.removes = 1])
                    /\ wu' = [wu EXCEPT !["disc"] = waitUntil(timeoutMs)]
  /\ UNCHANGED << previousSsid, cachedSsid, rd, conn, asyn, pendingApply, hconn >>

\* loop of the waitUntil of disconnectWifiNetwork runs
DiscPollLoop ==
  /\ \/ disc.pc = "poll"
     \/ disc.pc = "pollSleep" /\ wu["disc"].timer = 0
  /\ \E r \in GetSSIDAsyncOutcomes :
          /\ rd' = [rd EXCEPT !["disc"] = RdOf(r)]
          /\ cachedSsid' = IF r.cache THEN r.val ELSE cachedSsid
  /\ disc' = [disc EXCEPT !.pc = "pollRead"]
  /\ wu' = [wu EXCEPT !["disc"].timer = -1]
  /\ hdisc' = Recorded(hdisc, [hdisc EXCEPT !.readIssued = TRUE])
  /\ UNCHANGED << previousSsid, conn, asyn, pendingApply, hconn >>

\* checkFn resolves and loop decides
DiscPollResult ==
  /\ disc.pc = "pollRead"
  /\ rd["disc"].st = "done"
  /\ LET currentSsid == rd["disc"].val
         step == waitUntilLoop(wu["disc"], currentSsid # disc.ssidToDisconnect)
     IN IF step = "sleep"
        THEN /\ disc' = [disc EXCEPT !.pc = "pollSleep"]
             /\ wu' = [wu EXCEPT !["disc"] = WuSleep(@)]
        ELSE /\ disc' = [disc EXCEPT !.pc = "waited",
                                     !.disconnected = (step = "true")]
             /\ wu' = [wu EXCEPT !["disc"] = WuFinished(@)]
  /\ rd' = [rd EXCEPT !["disc"] = Consumed(@)]
  /\ UNCHANGED << previousSsid, cachedSsid, conn, asyn, pendingApply, hconn, hdisc >>

\* Faulty variant: the state is cleared without looking at disconnected
ClearsState_Unchecked(disconnected, previous, ssidToDisconnect) ==
  previous = ssidToDisconnect

\* "if (disconnected && this.previousSsid === ssidToDisconnect)"
ClearsState(disconnected, previous, ssidToDisconnect) ==
  disconnected /\ previous = ssidToDisconnect

\* the continuation of waitUntil in disconnectWifiNetwork
DiscAfterWait ==
  /\ disc.pc = "waited"
  /\ IF ClearsState(disc.disconnected, previousSsid, disc.ssidToDisconnect)
     THEN /\ previousSsid' = UndefV
          /\ cachedSsid' = NullV
     ELSE UNCHANGED << previousSsid, cachedSsid >>
  /\ disc' = [disc EXCEPT !.pc = "settled", !.disconnected = FALSE,
                          !.result = IF disc.disconnected THEN "true" ELSE "false"]
  /\ UNCHANGED << rd, wu, conn, asyn, pendingApply, hconn, hdisc >>

\* the caller takes the result of disconnectWifiNetwork
DisconnectReturn ==
  /\ disc.pc = "settled"
  /\ disc' = DiscIdle
  /\ hdisc' = HdiscInit
  /\ rd' = [rd EXCEPT !["disc"] = RdIdle]
  /\ UNCHANGED << previousSsid, cachedSsid, wu, conn, asyn, pendingApply, hconn >>

\* ------------------------------------------------------------ time
\* a step the event loop takes without waiting is enabled
Urgent ==
  \/ \E o \in Readers : rd[o].st = "done" \/ rd[o].timer = 0
  \/ \E o \in Waiters : wu[o].timer = 0
  \/ wu["any"].pc \in { "loop", "settled" }
  \/ conn.pc \in { "poll", "waited", "settled" }
  \/ conn.timer = 0
  \/ disc.pc \in { "poll", "waited", "settled" }
  \/ asyn.pc = "settled"

\* the waitUntil of o has started and not resolved: its clock is running
WuRunning(o) ==
  \/ o = "conn" /\ conn.pc \in { "pollRead", "pollSleep" }
  \/ o = "disc" /\ disc.pc \in { "pollRead", "pollSleep" }
  \/ o = "any" /\ wu["any"].pc \in { "check", "sleep" }

Down(t) == IF t < 0 THEN t ELSE Max(0, t - TickMs)
Up(e, cap) == Min(e + TickMs, cap + TickMs)

Tick ==
  /\ ~AllIdle \/ rd["refresh"].st # "idle" \/ wu["any"].pc # "idle"
  /\ ~Urgent
  /\ rd' = [o \in Readers |-> [rd[o] EXCEPT !.timer = Down(@)]]
  /\ wu' = [o \in Waiters |->
              IF WuRunning(o)
              THEN [wu[o] EXCEPT !.timer = Down(@),
                                 !.elapsed = Up(@, wu[o].safeTimeoutMs)]
              ELSE wu[o]]
  /\ conn' = IF conn.pc = "idle" THEN conn
             ELSE [conn EXCEPT !.timer = Down(@),
                               !.elapsed = Up(@, conn.safeTimeoutMs)]
  /\ asyn' = IF asyn.pc = "reading"
             THEN [asyn EXCEPT !.elapsed = Up(@, SSID_FETCH_TIMEOUT_MS)]
             ELSE asyn
  /\ UNCHANGED << previousSsid, cachedSsid, disc, pendingApply, hconn, hdisc >>

\* the timers that are running
RunningTimers ==
  { t \in { rd[o].timer : o \in Readers } \cup { wu[o].timer : o \in Waiters }
           \cup { conn.timer } : t > 0 }

\* how long an apply takes that does not complete at once
LongWaitMs == PREFERRED_SLICE_MS

\* time passes until the next timer expires, or by LongWaitMs when only
\* native completion handlers are awaited
LeapMs ==
  IF RunningTimers = {} THEN LongWaitMs
  ELSE CHOOSE t \in RunningTimers : \A u \in RunningTimers : t <= u

DownBy(t, ms) == IF t < 0 THEN t ELSE Max(0, t - ms)
UpBy(e, cap, ms) == Min(e + ms, cap + TickMs)

Leap ==
  /\ ~AllIdle
  /\ ~Urgent
  /\ rd' = [o \in Readers |-> [rd[o] EXCEPT !.timer = DownBy(@, LeapMs)]]
  /\ wu' = [o \in Waiters |->
              IF WuRunning(o)
              THEN [wu[o] EXCEPT !.timer = DownBy(@, LeapMs),
                                 !.elapsed = UpBy(@, wu[o].safeTimeoutMs, LeapMs)]
              ELSE wu[o]]
  /\ conn' = IF conn.pc = "idle" THEN conn
             ELSE [conn EXCEPT !.timer = DownBy(@, LeapMs),
                               !.elapsed = UpBy(@, conn.safeTimeoutMs, LeapMs)]
  /\ UNCHANGED << previousSsid, cachedSsid, disc, asyn, pendingApply, hconn, hdisc >>

\* ------------------------------------------------------------ specification
Next ==
  \/ connectToWifiNetwork(Alone)
  \/ ConnInitialSsid
  \/ ConnDelayFired
  \/ ConnApplyCompleted
  \/ ConnPollLoop
  \/ ConnPollResult
  \/ ConnAfterWait
  \/ ConnectReturn
  \/ disconnectWifiNetwork(Alone)
  \/ DiscPollLoop
  \/ DiscPollResult
  \/ DiscAfterWait
  \/ DisconnectReturn
  \/ getSSIDAsyncCall(Alone)
  \/ getSSIDAsyncResolved
  \/ getSSIDAsyncReturn
  \/ \E o \in Readers : FetchCompleted(o)
  \/ \E o \in Readers : FetchTimedOut(o)
  \/ \E o \in Readers : FetchCompletedLate(o)
  \/ Tick

Spec == Init /\ [][Next]_vars

\* The same program under the scheduling the event loop guarantees: a promise
\* continuation that is ready runs, a timer that has expired fires, time
\* passes.  Nothing obliges the native configuration manager to call the
\* completion handler of an apply, nor the application to make a call.
Scheduled ==
  \/ ConnInitialSsid
  \/ ConnDelayFired
  \/ ConnPollLoop
  \/ ConnPollResult
  \/ ConnAfterWait
  \/ DiscPollLoop
  \/ DiscPollResult
  \/ DiscAfterWait
  \/ getSSIDAsyncResolved
  \/ \E o \in Readers : FetchCompleted(o)
  \/ \E o \in Readers : FetchTimedOut(o)
  \/ Tick

SpecFair == Spec /\ WF_vars(Scheduled)

\* The connect invocations with a long timeout, one at a time, with time
\* passing from one timer expiry to the next.
NextLong ==
  \/ connectToWifiNetwork(AloneLong)
  \/ ConnInitialSsid
  \/ ConnDelayFired
  \/ ConnApplyCompleted
  \/ ConnPollLoop
  \/ ConnPollResult
  \/ ConnAfterWait
  \/ ConnectReturn
  \/ FetchCompleted("conn")
  \/ FetchTimedOut("conn")
  \/ Leap

SpecLong == Init /\ [][NextLong]_vars

\* A promise continuation that is ready runs before the event loop takes the
\* next timer or native completion handler.
Microtask ==
  \/ \E o \in Readers : rd[o].st = "done"
  \/ conn.pc \in { "poll", "waited", "settled" }
  \/ disc.pc \in { "poll", "waited", "settled" }
  \/ asyn.pc = "settled"

\* The program with a connect and a disconnect invocation that overlap: the
\* application calls either without waiting for the other to resolve.
NextConcurrent ==
  \/ connectToWifiNetwork(Overlapping)
  \/ ConnInitialSsid
  \/ ~Microtask /\ ConnDelayFired
  \/ ~Microtask /\ ConnApplyCompleted
  \/ ~Microtask /\ conn.pc = "pollSleep" /\ ConnPollLoop
  \/ conn.pc = "poll" /\ ConnPollLoop
  \/ ConnPollResult
  \/ ConnAfterWait
  \/ ConnectReturn
  \/ disconnectWifiNetwork(Overlapping)
  \/ ~Microtask /\ disc.pc = "pollSleep" /\ DiscPollLoop
  \/ disc.pc = "poll" /\ DiscPollLoop
  \/ DiscPollResult
  \/ DiscAfterWait
  \/ DisconnectReturn
  \/ ~Microtask /\ \E o \in Readers : FetchCompleted(o)
  \/ ~Microtask /\ \E o \in Readers : FetchTimedOut(o)
  \/ Tick

SpecConcurrent == Init /\ [][NextConcurrent]_vars

\* The SSID resolver with reads that overlap: the application calls getSSID
\* and getSSIDAsync without waiting for a read in progress.
NextReaders ==
  \/ getSSID
  \/ getSSIDAsyncCall(Overlapping)
  \/ getSSIDAsyncResolved
  \/ getSSIDAsyncReturn
  \/ ~Microtask /\ \E o \in Readers : FetchCompleted(o)
  \/ ~Microtask /\ \E o \in Readers : FetchTimedOut(o)
  \/ Tick

SpecReaders == Init /\ [][NextReaders]_vars

\* waitUntil alone, with a predicate of any behaviour
NextWaitUntil ==
  \/ WaitUntilCall
  \/ WaitUntilLoop
  \/ WaitUntilChecked
  \/ WaitUntilReturn
  \/ Tick

SpecWaitUntil == Init /\ [][NextWaitUntil]_vars

\* ------------------------------------------------------------ claims
ConnSettled == conn.pc = "settled"
DiscSettled == disc.pc = "settled"

\* C1: connectToWifiNetwork never rejects: whatever the native calls do, the
\* promise it returned is resolved with a boolean.
C1_ConnectNeverRejects ==
  ConnSettled => conn.result \in { "true", "false" }

\* C1 witness: a native apply call threw and the invocation resolved false.
C1_Witness ==
  ConnSettled /\ conn.lastNative = "threw" /\ conn.applies > 0
  /\ conn.result = "false"

\* C2: disconnectWifiNetwork never rejects, also when the native removal
\* throws while a PreviousSsid is recorded.
C2_DisconnectNeverRejects ==
  DiscSettled => disc.result \in { "true", "false" }

\* C3: every connectToWifiNetwork invocation eventually settles, whatever
\* the native configuration manager does with the apply completion handler.
C3_ConnectEventuallySettles ==
  (conn.pc # "idle") ~> ConnSettled

\* C4: connectToWifiNetwork resolves true only if a confirmed read equal to
\* the target was obtained no later than timeoutMs after the call started
\* (a read started within the budget is counted as obtained within it, the
\* reading most favourable to the claim).
C4_TrueOnlyWithinBudget ==
  (ConnSettled /\ conn.result = "true") => hconn.inTime

\* C5: when the requested SSID normalizes to null the call resolves false,
\* having issued no SSID read, no removal and no apply, and having left
\* PreviousSsid and CachedSsid as they were.
C5_InvalidSsidFailsUntouched ==
  (ConnSettled /\ conn.expectedSsid = NullV) =>
    /\ conn.result = "false"
    /\ ~hconn.readIssued
    /\ conn.removes = 0
    /\ conn.applies = 0
    /\ previousSsid = hconn.prev0
    /\ cachedSsid = hconn.cached0

\* C5 witness: an invalid SSID was refused while both fields held a value.
C5_Witness ==
  /\ ConnSettled
  /\ conn.expectedSsid = NullV
  /\ previousSsid # UndefV
  /\ cachedSsid # NullV

\* C6: when the initial confirmed read equals the target, the call resolves
\* true without any removal or apply, for any timeout.
C6_IdempotentShortcut ==
  hconn.initialMatch =>
    /\ ConnSettled
    /\ conn.result = "true"
    /\ conn.removes = 0
    /\ conn.applies = 0

\* C6 witness: the shortcut was taken with a timeout of 0.
C6_Witness ==
  hconn.initialMatch /\ ConnSettled /\ conn.safeTimeoutMs = 0

\* C7: whenever connectToWifiNetwork resolves true, PreviousSsid and
\* CachedSsid both equal the normalized target at that moment.
C7_SuccessRecordsTarget ==
  (ConnSettled /\ conn.result = "true") =>
    /\ previousSsid = conn.expectedSsid
    /\ cachedSsid = conn.expectedSsid

\* C7 witness: success at a polling stage, with another SSID recorded before.
C7_Witness ==
  /\ ConnSettled
  /\ conn.result = "true"
  /\ conn.applies > 0
  /\ hconn.prev0 # UndefV
  /\ hconn.prev0 # conn.expectedSsid

\* C8: a connectToWifiNetwork call that resolves false leaves PreviousSsid
\* equal to its value before the call.
C8_FailureKeepsPreviousSsid ==
  (ConnSettled /\ conn.result = "false") => previousSsid = hconn.prev0

\* C8 witness: a call that applied and polled failed while another SSID was
\* recorded as PreviousSsid.
C8_Witness ==
  /\ ConnSettled
  /\ conn.result = "false"
  /\ conn.applies > 0
  /\ hconn.sawRead
  /\ hconn.prev0 # UndefV
  /\ hconn.prev0 # conn.expectedSsid

\* C9 as claimed: a connectToWifiNetwork call that resolves false leaves
\* CachedSsid equal to its value before the call.
C9_FailureKeepsCachedSsid ==
  (ConnSettled /\ conn.result = "false") => cachedSsid = hconn.cached0

\* C9 amended: a connectToWifiNetwork call that resolves false leaves
\* CachedSsid equal to the result of the last SSID read it completed, and to
\* its value before the call when it completed none.
C9_FailureLeavesLastRead ==
  (ConnSettled /\ conn.result = "false") =>
    cachedSsid = IF hconn.sawRead THEN hconn.lastRead ELSE hconn.cached0

\* C9 witness: a failed call whose reads replaced the cached SSID.
C9_Witness ==
  /\ ConnSettled
  /\ conn.result = "false"
  /\ hconn.sawRead
  /\ cachedSsid # hconn.cached0

\* C10 as claimed: a disconnectWifiNetwork call that times out leaves both
\* PreviousSsid and CachedSsid equal to their values before the call.
C10_TimeoutKeepsState ==
  (DiscSettled /\ disc.result = "false") =>
    /\ previousSsid = hdisc.prev0
    /\ cachedSsid = hdisc.cached0

\* C10 amended: a disconnectWifiNetwork call that times out leaves
\* PreviousSsid equal to its value before the call and CachedSsid equal to
\* the normalized PreviousSsid, the SSID its last read returned.
C10_TimeoutKeepsPreviousSsid ==
  (DiscSettled /\ disc.result = "false") =>
    /\ previousSsid = hdisc.prev0
    /\ cachedSsid = normalizeSsid(hdisc.prev0)

\* C10 witness: a disconnect timed out after its reads replaced the cache.
C10_Witness ==
  /\ DiscSettled
  /\ disc.result = "false"
  /\ cachedSsid # hdisc.cached0

\* C11: whenever disconnectWifiNetwork resolves true (it started with a
\* recorded PreviousSsid, having reached its polling), PreviousSsid is cleared
\* and CachedSsid is null at the step that resolves it, whatever connect
\* invocation overlaps with it.
C11_DisconnectSuccessClears ==
  [][ (disc.pc = "waited" /\ disc'.pc = "settled" /\ disc'.result = "true")
        => (previousSsid' = UndefV /\ cachedSsid' = NullV) ]_vars

\* C12: when no PreviousSsid is recorded, disconnectWifiNetwork resolves true
\* without a native removal, without an SSID read and without changing
\* PreviousSsid or CachedSsid.
C12_NothingToDisconnect ==
  (DiscSettled /\ hdisc.on /\ hdisc.prev0 = UndefV) =>
    /\ disc.result = "true"
    /\ hdisc.removes = 0
    /\ ~hdisc.readIssued
    /\ previousSsid = hdisc.prev0
    /\ cachedSsid = hdisc.cached0

\* C12 witness: a disconnect with nothing recorded resolved while an SSID was
\* cached.
C12_Witness ==
  /\ DiscSettled
  /\ hdisc.on
  /\ hdisc.prev0 = UndefV
  /\ cachedSsid # NullV

\* C13: with a timeout of 0, connectToWifiNetwork resolves true only through
\* the idempotent shortcut, with no apply issued, and otherwise resolves
\* false without having polled for the target and without having waited on a
\* timer (every removal it issues is followed by the settle delay).
C13_ZeroBudgetFailsFast ==
  (ConnSettled /\ hconn.on /\ conn.safeTimeoutMs = 0) =>
    /\ conn.result = "true" => (hconn.initialMatch /\ conn.applies = 0)
    /\ conn.result = "false" => (~hconn.polled /\ conn.removes = 0)

\* C14: at most one asynchronous native SSID fetch is outstanding at any
\* time: a request arriving while a fetch is outstanding issues no new one.
C14_SingleFetchOutstanding ==
  Cardinality({ o \in Readers : rd[o].st = "fetching" }) <= 1

\* C15: getSSIDAsync always resolves, no later than SSID_FETCH_TIMEOUT_MS
\* after it was called, and a native completion handler called after the
\* timeout has ended the fetch changes neither the promise nor its value.
C15_ReadResolvesWithinTimeout ==
  /\ (asyn.pc = "reading") ~> (asyn.pc = "settled")
  /\ [](asyn.pc = "reading" => asyn.elapsed <= SSID_FETCH_TIMEOUT_MS)
  /\ [][ \A o \in Readers :
            ( /\ rd[o].late /\ ~rd'[o].late
              /\ conn'.pc = conn.pc /\ disc'.pc = disc.pc /\ asyn'.pc = asyn.pc )
            => ( /\ rd'[o].st = rd[o].st
                 /\ rd'[o].val = rd[o].val
                 /\ asyn'.result = asyn.result ) ]_vars

\* C15 witness: a getSSIDAsync call was resolved by the timeout, 1500 ms after
\* it was made, the native completion handler not having been called.
C15_Witness ==
  /\ asyn.pc = "settled"
  /\ asyn.elapsed = SSID_FETCH_TIMEOUT_MS
  /\ rd["asyn"].late

\* C16: whenever a getSSIDAsync call (of the application, of a connect or of
\* a disconnect) resolves with a value, CachedSsid equals that value at the
\* step that resolves it.
C16_ResultIsCached ==
  [][ \A o \in { "conn", "disc", "asyn" } :
        (rd[o].st # "done" /\ rd'[o].st = "done") => cachedSsid' = rd'[o].val ]_vars

\* C16 witness: a getSSIDAsync call resolved with null while a non-null SSID
\* was cached before it, and null is cached now.
C16_Witness ==
  /\ asyn.pc = "settled"
  /\ asyn.result = NullV
  /\ asyn.cached0 # NullV
  /\ cachedSsid = NullV

\* the completion handler of the outstanding apply of the connect invocation
\* is called in this step
ApplyCompletes == conn.pc = "apply" /\ conn'.ret # conn.ret

\* the codes the claims call recoverable
RecoverableCodes ==
  { HOTSPOT_ERROR_ALREADY_ASSOCIATED, HOTSPOT_ERROR_PENDING,
    HOTSPOT_ERROR_INTERNAL }

\* C17: when an apply stage of connectToWifiNetwork ends (no further apply
\* or reset follows the completed apply) with an error that is non-null and
\* not recoverable, the call resolves false, and nothing more is done in the
\* invocation; when it ends with no error or a recoverable one, the next
\* polling stage is entered.
C17_NonRecoverableIsTerminal ==
  [][ /\ (ApplyCompletes /\ conn'.pc \notin { "apply", "delay" }) =>
           IF conn'.err # 0 /\ conn'.err \notin RecoverableCodes
           THEN conn'.pc = "settled" /\ conn'.result = "false"
           ELSE conn'.pc = "poll" /\ conn'.stage = conn.stage + 1
      /\ ConnSettled => (conn' = conn \/ conn' = ConnIdle) ]_vars

\* C17 witness: after the first polling stage, the persistent reapply (or its
\* reset) ended with a non-recoverable error and the call resolved false.
C17_Witness ==
  /\ ConnSettled
  /\ conn.result = "false"
  /\ conn.stage = 1
  /\ conn.err = OtherErrorCode

\* C18: when the join-once apply or the persistent reapply completes with
\* the internal error, the configuration is removed and the settle delay
\* armed; when the delay has run its 400 ms, a persistent configuration for
\* the target is applied; and a polling stage starts only on the completion
\* of an apply.
C18_ResetAfterInternalError ==
  [][ /\ (ApplyCompletes /\ conn.ret \in { "fb1", "persist" }
            /\ conn'.err = HOTSPOT_ERROR_INTERNAL) =>
           /\ conn'.pc = "delay"
           /\ conn'.removes = conn.removes + 1
           /\ conn'.applies = conn.applies
           /\ conn'.timer = HOTSPOT_RETRY_DELAY_MS
           /\ conn'.ret \in { "initReset", "persistReset" }
      /\ (conn.pc = "delay" /\ conn.ret \in { "initReset", "persistReset" }
            /\ conn'.pc # "delay") =>
           /\ conn.timer = 0
           /\ conn'.applies = conn.applies + 1
           /\ conn'.removes = conn.removes
           /\ \/ /\ conn'.pc = "apply"
                 /\ pendingApply'.SSID = conn.expectedSsid
                 /\ ~pendingApply'.joinOnce
              \/ conn'.pc = "settled" /\ conn'.lastNative = "threw"
      /\ (conn.pc = "delay" /\ conn'.pc = "delay") =>
           (conn'.removes = conn.removes /\ conn'.timer < conn.timer)
      /\ (conn.pc # "poll" /\ conn'.pc = "poll") => ApplyCompletes ]_vars

\* C18 witness: the persistent reapply got the internal error and the
\* persistent apply that follows the reset is outstanding.
C18_Witness ==
  conn.pc = "apply" /\ conn.ret = "persistReset" /\ conn.err = HOTSPOT_ERROR_INTERNAL

\* C19: when the join-once apply completes with "join-once not supported",
\* exactly one apply, without join-once, is issued at once; and when that
\* apply succeeded and a read started within the budget reported the target,
\* the call resolves true.
C19_FallbackWithoutJoinOnce ==
  /\ [][ (ApplyCompletes /\ conn.ret = "fb1"
            /\ conn'.err = HOTSPOT_ERROR_JOIN_ONCE_NOT_SUPPORTED) =>
           /\ conn'.applies = conn.applies + 1
           /\ conn'.removes = conn.removes
           /\ \/ /\ conn'.pc = "apply"
                 /\ pendingApply'.SSID = conn.expectedSsid
                 /\ ~pendingApply'.joinOnce
              \/ conn'.pc = "settled" /\ conn'.lastNative = "threw" ]_vars
  /\ []((ConnSettled /\ hconn.fallback = "ok" /\ hconn.inTime)
          => conn.result = "true")

\* C19 witness: the apply without join-once succeeded, a poll made within
\* the budget read the target, and the call resolved.
C19_Witness ==
  /\ ConnSettled
  /\ hconn.fallback = "ok"
  /\ hconn.inTime
  /\ conn.applies = 2

\* C20: after the first polling stage, no removal and no apply is started
\* when the remaining budget is zero, and an invocation that finds the budget
\* exhausted without confirmation resolves false.
C20_NoRemediationWithoutBudget ==
  [][ /\ (conn.stage >= 1
            /\ (conn'.removes > conn.removes \/ conn'.applies > conn.applies))
           => getRemainingTimeout(conn) > 0
      /\ (conn.pc = "waited" /\ ~conn.connected
            /\ getRemainingTimeout(conn) = 0)
           => (conn'.pc = "settled" /\ conn'.result = "false") ]_vars

\* ------------------------------------------------------------ C21
Polling == { "poll", "pollRead", "pollSleep" }

\* C21: the steps of one connectToWifiNetwork invocation are strictly
\* sequential. An apply is started only when no apply of the invocation is
\* outstanding (or in the completion handler of the one that was), one at a
\* time, and no polling loop of it is running (no loop timer armed, no
\* predicate read in progress); a predicate is evaluated only by a running
\* polling loop and never while an apply is outstanding; and once the
\* waitUntil of a stage has resolved no loop timer of it is left armed.
C21_StrictlySequential ==
  [][ /\ conn'.applies > conn.applies =>
           /\ conn'.applies = conn.applies + 1
           /\ pendingApply # NoConfig => ApplyCompletes
           /\ conn.pc \notin Polling
           /\ wu["conn"].timer < 0
           /\ rd["conn"].st \notin { "fetching", "done" }
      /\ (conn'.pc = "pollRead" /\ conn.pc # "pollRead") =>
           /\ conn.pc \in Polling
           /\ pendingApply = NoConfig
      /\ conn'.pc \in { "waited", "delay", "apply", "settled" } =>
           wu'["conn"].timer < 0
      /\ pendingApply' # NoConfig => conn'.pc = "apply"
    ]_vars

\* an apply is outstanding that was started after a polling stage had ended
C21_Witness ==
  /\ conn.pc = "apply"
  /\ conn.ret \in { "persist", "resetRetry" }
  /\ conn.stage \in { 1, 2 }
  /\ pendingApply # NoConfig
  /\ wu["conn"].timer < 0

\* ------------------------------------------------------------ C22
\* a run of loop of the waitUntil with any predicate has handled the outcome
\* of one predicate evaluation
Evaluated == wu["any"].pc = "check" /\ wu'["any"].pc # "check"

\* C22: waitUntil resolves true as soon as one predicate evaluation returns
\* true, and resolves false only after an evaluation that did not return
\* true, at a moment when the time elapsed since it started is at least
\* the timeoutMs floored at 0.
C22_TrueAtOnceFalseAtDeadline ==
  [][ Evaluated =>
        /\ wu'["any"].last = "true" =>
             wu'["any"].pc = "settled" /\ wu'["any"].result = "true"
        /\ wu'["any"].result = "true" => wu'["any"].last = "true"
        /\ wu'["any"].result = "false" =>
             /\ wu'["any"].last # "true"
             /\ wu["any"].elapsed >= wu["any"].safeTimeoutMs
             /\ wu["any"].safeTimeoutMs >= 0
    ]_vars

\* a waitUntil with a positive timeout resolved false after the predicate
\* was evaluated more than once, and one resolved true
C22_Witness ==
  /\ wu["any"].pc = "settled"
  /\ wu["any"].result = "false"
  /\ wu["any"].last = "false"
  /\ wu["any"].safeTimeoutMs >= 2 * wu["any"].safeIntervalMs
  /\ wu["any"].elapsed >= wu["any"].safeTimeoutMs

\* ------------------------------------------------------------ C23
\* C23: a predicate evaluation that rejects is handled like one that
\* returned false: waitUntil resolves false when the deadline has passed and
\* otherwise arms the next evaluation after the same interval; an evaluation
\* that returns true after rejections resolves true; and the rejection is
\* logged at most once per call.
C23_RejectionIsTransient ==
  [][ Evaluated =>
        /\ wu'["any"].last = "reject" =>
             IF wu["any"].elapsed >= wu["any"].safeTimeoutMs
             THEN wu'["any"].pc = "settled" /\ wu'["any"].result = "false"
             ELSE /\ wu'["any"].pc = "sleep"
                  /\ wu'["any"].timer = wu["any"].safeIntervalMs
        /\ (wu'["any"].last = "true" /\ wu["any"].rejects > 0) =>
             wu'["any"].pc = "settled" /\ wu'["any"].result = "true"
        /\ wu'["any"].logs <= 1
        /\ wu'["any"].logs = IF wu'["any"].rejects > 0 THEN 1 ELSE 0
    ]_vars

\* waitUntil resolved true after two or more evaluations rejected, with one
\* log entry
C23_Witness ==
  /\ wu["any"].pc = "settled"
  /\ wu["any"].result = "true"
  /\ wu["any"].rejects = 2
  /\ wu["any"].logs = 1
  /\ wu["any"].loopErrorLogged

\* ------------------------------------------------------------ C24
\* C24: what the SSID normalizer returns (here for the ssid argument of
\* connectToWifiNetwork) is null or a non-empty string other than the
\* unknown-SSID sentinel.
C24_NormalizedIsNullOrKnown ==
  \/ conn.expectedSsid = NullV
  \/ conn.expectedSsid # <<>> /\ conn.expectedSsid # UnknownSsid

\* ------------------------------------------------------------ C25
\* C25: the waitUntil of disconnectWifiNetwork resolves true (and with it the
\* call) only on a confirmed SSID read that returned a known SSID, one that
\* is not null, different from the SSID being left.
C25_LeftOnlyOnKnownSsid ==
  [][ (disc.pc = "pollRead" /\ disc'.pc = "waited" /\ disc'.disconnected) =>
        /\ rd["disc"].val # NullV
        /\ rd["disc"].val # disc.ssidToDisconnect
    ]_vars

\* ------------------------------------------------------------ C26
\* C26: one connectToWifiNetwork invocation runs at most 3 polling stages
\* (each start of a stage is the start of the next one, up to the third) and
\* issues at most 7 native configuration applies, one at a time; only the
\* first of them asks for joinOnce, every later one has joinOnce = false.
C26_BoundedRemediation ==
  [][ /\ (conn'.pc = "poll" /\ conn.pc # "poll") =>
           conn'.stage = conn.stage + 1 /\ conn'.stage <= 3
      /\ conn'.applies <= 7
      /\ conn'.applies > conn.applies => conn'.applies = conn.applies + 1
      /\ pendingApply' # NoConfig =>
           pendingApply'.joinOnce = (conn'.applies = 1)
    ]_vars

\* the third polling stage runs after seven applies
C26_Witness ==
  /\ conn.applies = 7
  /\ conn.stage = 3
  /\ conn.pc \in Polling
  /\ conn.removes = 5
====
